---- MODULE Spec2Model ----
(***************************************************************************)
(* A model of engineeringmetrics/adapters/adapters.py: the FlowLog list    *)
(* with its validating append, the construction of a JiraIssue's flow log  *)
(* from the change history, and the Jira adapter's datastore.              *)
(***************************************************************************)
EXTENDS Integers, Sequences, FiniteSets, TLC

VARIABLES
    timeline,       \* a FlowLog object that callers append to
    flowCall,       \* the last FlowLog.append call: its argument and outcome
    issue,          \* the outcome of JiraIssue(issue) for one raw issue
    counted,        \* the last np.busday_count call on two dates: arguments and result
    env,            \* what the process runs in: today's date (a day number), the numpy installed
    datastore,      \* Jira._datastore
    defaultIssues,  \* the list object that is the default of JQLResult.__init__'s issues
    latest,         \* per label, the query and tickets of the last populate_from_jql that returned
    storeCall       \* the last call on the Jira adapter: arguments, source answers, outcome

vars == <<timeline, flowCall, issue, counted, env, datastore, defaultIssues, latest, storeCall>>

flowVars == <<timeline, flowCall>>
issueVars == <<issue, counted, env>>
storeVars == <<datastore, defaultIssues, latest, storeCall>>

(***************************************************************************)
(* Bounds of the model.                                                    *)
(***************************************************************************)
MaxLen == 3         \* FlowLog.append is called while the list is shorter
MaxHistories == 2   \* histories in a raw issue's changelog
TicksPerDay == 2    \* granularity of the clock: ticks in a day
MaxDay == 13        \* np.busday_count is called on the days 0..MaxDay, two weeks

\* The instants of the datetimes callers append, and of a raw issue's timestamps.
FlowTicks == 0..1
IssueTicks == {0, 5, 10}
MaxIds == 2         \* project ids in one populate_projects call
MaxShared == 2      \* length the default issues list may grow to

(***************************************************************************)
(* Python values.                                                          *)
(***************************************************************************)
PyNone == [ty |-> "NoneType"]
PyStr(s) == [ty |-> "str", v |-> s]
PyInt(n) == [ty |-> "int", v |-> n]
\* A datetime: t is the instant (naive: the wall clock) in ticks, aware says
\* whether tzinfo is set.
PyDatetime(t, aware) == [ty |-> "datetime", t |-> t, aware |-> aware]
\* A dict: d is a function from its keys to its values.
PyDict(d) == [ty |-> "dict", d |-> d]

\* str(x)
Str(x) ==
    CASE x.ty = "str" -> x
      [] x.ty = "NoneType" -> PyStr("None")
      [] x.ty = "int" -> PyStr(ToString(x.v))
      [] OTHER -> PyStr("<object>")

Datetimes == {PyDatetime(t, a) : t \in FlowTicks, a \in BOOLEAN}

(***************************************************************************)
(* FlowLog                                                                 *)
(***************************************************************************)
\* value.keys() exists (line 137); otherwise AttributeError -> TypeError
HasKeys(value) == value.ty = "dict"

\* An append that checks nothing about entered_at.
AnyEnteredAt(entered_at) == TRUE

\* datetime.now(entered_at.tzinfo) - entered_at raises neither AttributeError
\* nor TypeError (lines 143-145): entered_at is a datetime, naive or aware.
SubtractsFromNow(entered_at) == entered_at.ty = "datetime"

\* a < b on two sort keys raises TypeError (naive against aware datetimes).
\* The list only ever holds datetimes: append lets nothing else in.
Comparable(a, b) ==
    /\ a.ty = "datetime"
    /\ b.ty = "datetime"
    /\ a.aware = b.aware

LessThan(a, b) == a.t < b.t

\* list.sort raises: some pair of keys cannot be compared. A sort that returns
\* has ordered every element against the others through comparisons, so a list
\* with two incomparable keys cannot be sorted.
SortRaises(s) ==
    \E i, j \in 1..Len(s) : i < j /\ ~Comparable(s[i].entered_at, s[j].entered_at)

\* Insert e after every element whose key is not greater than e's.
RECURSIVE InsertByKey(_, _)
InsertByKey(s, e) ==
    IF s = <<>> THEN <<e>>
    ELSE IF LessThan(e.entered_at, s[1].entered_at) THEN <<e>> \o s
    ELSE <<s[1]>> \o InsertByKey(Tail(s), e)

RECURSIVE StableSort(_)
StableSort(s) ==
    IF s = <<>> THEN <<>>
    ELSE InsertByKey(StableSort(SubSeq(s, 1, Len(s) - 1)), s[Len(s)])

\* The list as appended to, with no sort after the append.
LeftAsAppended(s) == s

\* self.sort(key=lambda l: l['entered_at']) when no comparison raises:
\* list.sort is stable.
SortByEnteredAt(s) == StableSort(s)

\* The orders list.sort can leave the list in when a comparison raises: the
\* list is "left in a partially modified state", a permutation of its elements.
Reorderings(s) ==
    LET n == Len(s)
        P == {p \in [1..n -> 1..n] : \A i, j \in 1..n : i # j => p[i] # p[j]}
    IN {[i \in 1..n |-> s[p[i]]] : p \in P}

\* FlowLog.append(value): the outcomes [raised, log] of the call on list log.
AppendOutcomes(log, value) ==
    IF ~HasKeys(value) THEN {[raised |-> "TypeError", log |-> log]}
    ELSE IF "entered_at" \notin DOMAIN value.d THEN {[raised |-> "KeyError", log |-> log]}
    ELSE IF ~SubtractsFromNow(value.d.entered_at) THEN {[raised |-> "TypeError", log |-> log]}
    ELSE IF "state" \notin DOMAIN value.d THEN {[raised |-> "KeyError", log |-> log]}
    ELSE LET entry == [value.d EXCEPT !.state = Str(value.d.state)]
             appended == Append(log, entry)
         IN IF SortRaises(appended)
            THEN {[raised |-> "TypeError", log |-> l] : l \in Reorderings(appended)}
            ELSE {[raised |-> "none", log |-> SortByEnteredAt(appended)]}

\* What callers pass to append.
EnteredAtValues == Datetimes \cup {PyNone, PyStr("2024-01-01"), PyInt(5)}
StateValues == {PyStr("Open"), PyStr(""), PyNone}
AppendValues ==
    {PyDict([entered_at |-> e, state |-> s]) : e \in EnteredAtValues, s \in StateValues}
    \cup {PyDict([entered_at |-> e]) : e \in Datetimes}
    \cup {PyDict([state |-> s]) : s \in StateValues}
    \cup {PyNone, PyStr("Open")}

FlowAppend(value) ==
    /\ Len(timeline) < MaxLen
    /\ \E out \in AppendOutcomes(timeline, value) :
        /\ timeline' = out.log
        /\ flowCall' = [value |-> value, raised |-> out.raised]
    /\ UNCHANGED <<issueVars, storeVars>>

(***************************************************************************)
(* JiraIssue                                                               *)
(***************************************************************************)
\* A timestamp as the source sends it: a string; tz says whether it carries
\* a UTC offset.
RawTime(t, tz) == [ty |-> "str", t |-> t, tz |-> tz]

\* dateutil.parser.parse of a timestamp string: aware iff the string has an offset.
parse(s) == PyDatetime(s.t, s.tz)

\* datetime.date(): the calendar day of the wall clock.
date(dt) == dt.t \div TicksPerDay

\* A week mask that leaves out Sunday only.
MondayToSaturday(d) == (d % 7) < 6

\* Day 0 is a Monday (2024-01-01); numpy's default weekmask is Monday to Friday.
IsBusday(d) == (d % 7) < 5

BusdaysIn(from, to) == Cardinality({d \in from..to : IsBusday(d)})

\* np.busday_count(begin, end): the business days in [begin, end); with end
\* before begin the count is negated, over [end, begin) in numpy before 1.25
\* and over (end, begin] from 1.25 on (fix says which numpy is installed).
busday_count(begin, end, fix) ==
    IF begin <= end THEN BusdaysIn(begin, end - 1)
    ELSE IF fix THEN 0 - BusdaysIn(end + 1, begin)
    ELSE 0 - BusdaysIn(end, begin - 1)

\* A loop that takes every item for a status change, whatever its field.
RECURSIVE ItemsOfAnyField(_, _)
ItemsOfAnyField(items, created) ==
    IF items = <<>> THEN <<>>
    ELSE <<[entered_at |-> parse(created), state |-> items[1].toString]>>
         \o ItemsOfAnyField(Tail(items), created)

\* The status items of the change history in the order of the two loops
\* (lines 72-74), each with its history's timestamp; oid names the dict built
\* for it (new_log_item).
RECURSIVE StatusItems(_, _)
StatusItems(items, created) ==
    IF items = <<>> THEN <<>>
    ELSE (IF items[1].field = "status"
          THEN <<[entered_at |-> parse(created), state |-> items[1].toString]>>
          ELSE <<>>) \o StatusItems(Tail(items), created)

RECURSIVE StatusEvents(_)
StatusEvents(histories) ==
    IF histories = <<>> THEN <<>>
    ELSE StatusItems(histories[1].items, histories[1].created)
         \o StatusEvents(Tail(histories))

\* The duration put on the last dict of the list instead of previous_item.
DurationOnLast(log, oid, n) ==
    [i \in 1..Len(log) |->
        IF i = Len(log)
        THEN [k \in DOMAIN log[i] \cup {"duration"} |->
                 IF k = "duration" THEN n ELSE log[i][k]]
        ELSE log[i]]

\* previous_item['duration'] = n: the dict named oid gets the key, wherever it
\* is in the list.
SetDuration(log, oid, n) ==
    [i \in 1..Len(log) |->
        IF log[i].oid = oid
        THEN [k \in DOMAIN log[i] \cup {"duration"} |->
                 IF k = "duration" THEN n ELSE log[i][k]]
        ELSE log[i]]

NoPrevious == 0 - 1

\* The loop of lines 72-83 from event i on. prev is the oid of previous_item.
RECURSIVE Replay(_, _, _, _, _)
Replay(log, prev, events, i, fix) ==
    IF i > Len(events) THEN {[raised |-> "none", log |-> log, prev |-> prev]}
    ELSE LET new_log_item == [entered_at |-> events[i].entered_at,
                              state |-> PyStr(events[i].state),
                              oid |-> i]
             closed == IF prev # NoPrevious
                       THEN SetDuration(log, prev,
                                busday_count(date(events[prev].entered_at),
                                             date(new_log_item.entered_at), fix))
                       ELSE log
         IN UNION {IF o.raised = "none"
                   THEN Replay(o.log, i, events, i + 1, fix)
                   ELSE {[raised |-> o.raised, log |-> o.log, prev |-> i]}
                   : o \in AppendOutcomes(closed, PyDict(new_log_item))}

\* The dicts of the list without the names of the objects.
Entries(log) ==
    [i \in 1..Len(log) |-> [k \in DOMAIN log[i] \ {"oid"} |-> log[i][k]]]

\* The object identities of the dicts of the list, in list order: 0 is the
\* seeded dict, i the dict built for the i-th status item.
Oids(log) == [i \in 1..Len(log) |-> log[i].oid]

\* JiraIssue.__init__, lines 49-60: the keys of the issue that hold timestamps.
\* updated_at is assigned twice.
IssueFields(raw) ==
    LET parsed == [created |-> parse(raw.created),
                   updated_at |-> parse(raw.updated),
                   resolutiondate |-> raw.resolutiondate]
    IN [parsed EXCEPT !.updated_at = PyNone]

\* The constructed object: its keys, its flow log, and the raw issue it keeps
\* (self._issue).
Built(raw, log) ==
    [raised |-> "none", flow_log |-> Entries(log), flow_oids |-> Oids(log)]
    @@ IssueFields(raw)

\* JiraIssue.__init__ (the flow log, lines 62-88): the outcomes of the constructor.
JiraIssueOutcomes(raw, now, fix) ==
    LET seed == [entered_at |-> parse(raw.created), state |-> PyStr("Created"), oid |-> 0]
        seeded == AppendOutcomes(<<>>, PyDict(seed))
        events == StatusEvents(raw.changelog.histories)
        finish(r) ==
            IF r.raised # "none" THEN [raised |-> r.raised]
            ELSE Built(raw,
                      IF r.prev # NoPrevious
                      THEN SetDuration(r.log, r.prev,
                               busday_count(date(events[r.prev].entered_at), now, fix))
                      ELSE r.log)
    IN UNION {IF s.raised # "none" THEN {[raised |-> s.raised]}
              ELSE IF ~raw.changelog.present
                   THEN {Built(raw, s.log)}
              ELSE {finish(r) : r \in Replay(s.log, NoPrevious, events, 1, fix)}
              : s \in seeded}

\* np.busday_count on Python objects: the arguments are cast to datetime64[D]
\* under the 'safe' rule. A datetime.datetime is a datetime64[us], which does
\* not cast: TypeError. None is NaT, which busday_count refuses: ValueError. A
\* date string counts as its day.
np_busday_count(begin, end, fix) ==
    IF begin.ty = "datetime" \/ end.ty = "datetime" THEN [raised |-> "TypeError"]
    ELSE IF begin.ty = "NoneType" \/ end.ty = "NoneType" THEN [raised |-> "ValueError"]
    ELSE [raised |-> "none",
          ret |-> busday_count(begin.t \div TicksPerDay, end.t \div TicksPerDay, fix)]

\* JiraIssue.cycleTime (line 118)
cycleTime(self, fix) == np_busday_count(self.created, self.resolutiondate, fix)

\* What the source sends.
Items == {[field |-> "status", toString |-> "In Progress"],
          [field |-> "status", toString |-> "Done"],
          [field |-> "assignee", toString |-> "bob"]}
ItemLists == {<<x>> : x \in Items}
             \cup {<<[field |-> "assignee", toString |-> "bob"],
                     [field |-> "status", toString |-> "Done"]>>}
RawHistories(tz) ==
    {[created |-> RawTime(t, tz), items |-> l] : t \in IssueTicks, l \in ItemLists}
RECURSIVE SeqsUpTo(_, _)
SeqsUpTo(S, n) ==
    IF n = 0 THEN {<<>>}
    ELSE SeqsUpTo(S, n - 1) \cup {Append(s, x) : s \in {q \in SeqsUpTo(S, n - 1) : Len(q) = n - 1}, x \in S}
LastTick == CHOOSE t \in IssueTicks : \A u \in IssueTicks : u <= t

\* issue.fields.resolutiondate: None while the ticket is unresolved.
ResolutionDates(tz) == {PyNone, RawTime(LastTick, tz)}

\* The raw issues whose timestamps all carry an offset (tz) or all carry none:
\* the source writes them in one format.
RawIssues(tz) ==
    {[created |-> RawTime(t, tz), updated |-> RawTime(LastTick, tz), resolutiondate |-> r,
      changelog |-> [present |-> TRUE, histories |-> h]]
        : t \in IssueTicks, r \in ResolutionDates(tz),
          h \in SeqsUpTo(RawHistories(tz), MaxHistories)}
    \cup {[created |-> RawTime(t, tz), updated |-> RawTime(LastTick, tz), resolutiondate |-> r,
           changelog |-> [present |-> FALSE, histories |-> <<>>]]
        : t \in IssueTicks, r \in ResolutionDates(tz)}

Construct(raw) ==
    /\ issue.raised = "nocall"
    /\ \E out \in JiraIssueOutcomes(raw, env.today, env.busdayFix) :
        issue' = out @@ [rawissue |-> raw]
    /\ UNCHANGED <<counted, env, flowVars, storeVars>>

\* np.busday_count(begin, end) on two dates, as lines 80 and 85 call it.
Days == 0..MaxDay
CountBusdays(begin, end) ==
    /\ counted' = [called |-> TRUE, begin |-> begin, end |-> end,
                   ret |-> busday_count(begin, end, env.busdayFix)]
    /\ UNCHANGED <<issue, env, flowVars, storeVars>>

(***************************************************************************)
(* JQLResult, JiraProject and the Jira adapter                             *)
(***************************************************************************)
\* The list the def statement of JQLResult.__init__ evaluates once for
\* "issues: List[JiraIssue] = []" (line 161): every call that passes no issues
\* gets this one object.
DefaultIssuesRef == [ref |-> "default"]
\* A list built by the caller.
OwnList(items) == [ref |-> "own", items |-> items]

\* JQLResult.__init__
JQLResultInit(query, label, issues) ==
    [ty |-> "JQLResult", query |-> query, label |-> label, issues |-> issues]

\* JiraProject.__init__: super().__init__(query_string, project.name) passes no
\* issues.
JiraProjectInit(project, query_string) ==
    [ty |-> "JiraProject", query |-> query_string, label |-> project.name,
     issues |-> DefaultIssuesRef, key |-> project.key, name |-> project.name]

\* JQLResult.issues, read in a state whose default list is shared
IssuesOf(result, shared) ==
    IF result.issues.ref = "default" THEN shared ELSE result.issues.items

\* The source: self._client.project(pid)
ProjectName(pid) == "Project " \o pid
ClientProject(pid) == [key |-> pid, name |-> ProjectName(pid)]

\* JiraIssue(issue) as the store holds it: the store never looks inside.
WrapIssues(answer) == [i \in 1..Len(answer) |-> [ty |-> "JiraIssue", key |-> answer[i]]]

\* {**a, **b}
Merge(a, b) == [k \in DOMAIN a \cup DOMAIN b |-> IF k \in DOMAIN b THEN b[k] ELSE a[k]]

\* "if len(proj.issues)" (line 267)
HasIssues(proj, shared) == Len(IssuesOf(proj, shared)) > 0

\* Jira._getJiraIssuesForProjects from the i-th id on; answers[i] is what
\* search_issues returns for project_ids[i]. shared is the default list.
RECURSIVE GetJiraIssuesForProjects(_, _, _, _, _)
GetJiraIssuesForProjects(project_ids, answers, i, issues_by_project, shared) ==
    IF i > Len(project_ids)
    THEN [issues_by_project |-> issues_by_project, shared |-> shared]
    ELSE LET pid == project_ids[i]
             pdata == ClientProject(pid)
             query_string == "project = \"" \o pid \o "\" ORDER BY priority DESC"
             proj == JiraProjectInit(pdata, PyStr(query_string))
             \* proj.issues.append(kt) for every issue
             shared1 == IF proj.issues.ref = "default"
                        THEN shared \o WrapIssues(answers[i])
                        ELSE shared
             proj1 == IF proj.issues.ref = "default" THEN proj
                      ELSE [proj EXCEPT !.issues.items = @ \o WrapIssues(answers[i])]
         IN GetJiraIssuesForProjects(project_ids, answers, i + 1,
                IF HasIssues(proj1, shared1)
                THEN Merge(issues_by_project, (pid :> proj1))
                ELSE issues_by_project,
                shared1)

EmptyDict == PyDict(<<>>)

\* Jira.__init__
StoreInit ==
    /\ datastore = [issues |-> EmptyDict, projects |-> EmptyDict]
    /\ defaultIssues = <<>>
    /\ latest = <<>>
    /\ storeCall = [op |-> "nocall"]

Pids == {"P1", "P2"}
Tickets == {"T1", "T2"}
Labels == {"JQL", "projects"}
Queries == {PyNone, PyStr(""), PyStr("q1"), PyStr("q2")}

NoRepeat(s) == \A i, j \in 1..Len(s) : i # j => s[i] # s[j]
\* What search_issues can return: every ticket at most once.
Answers == {s \in SeqsUpTo(Tickets, Cardinality(Tickets)) : NoRepeat(s)}
\* The id lists callers pass: every project at most once.
IdLists == {s \in SeqsUpTo(Pids, MaxIds) : NoRepeat(s)}

RECURSIVE TotalLen(_)
TotalLen(ss) == IF ss = <<>> THEN 0 ELSE Len(ss[1]) + TotalLen(Tail(ss))

\* Jira.populate_projects(projectids)
populate_projects(projectids, answers) ==
    /\ Len(defaultIssues) + TotalLen(answers) <= MaxShared
    /\ LET r == GetJiraIssuesForProjects(projectids, answers, 1, <<>>, defaultIssues)
           projects == r.issues_by_project
       IN /\ defaultIssues' = r.shared
          /\ IF datastore["projects"].ty = "dict"
             THEN /\ datastore' = [datastore EXCEPT
                        !["projects"] = PyDict(Merge(datastore["projects"].d, projects))]
                  /\ storeCall' = [op |-> "populate_projects", ids |-> projectids,
                                   answers |-> answers, raised |-> "none", ret |-> projects]
             ELSE \* {**x} of an object that is no mapping
                  /\ datastore' = datastore
                  /\ storeCall' = [op |-> "populate_projects", ids |-> projectids,
                                   answers |-> answers, raised |-> "TypeError"]
    /\ UNCHANGED <<latest, flowVars, issueVars>>

\* Jira.get_query_result(label)
get_query_result(label) ==
    IF label \in DOMAIN datastore
    THEN [raised |-> "none", ret |-> datastore[label]]
    ELSE [raised |-> "KeyError"]

\* Jira.get_project(pid): the KeyError is returned, not raised; subscripting
\* an object that is no dict raises TypeError, which nothing catches.
get_project(pid) ==
    IF datastore["projects"].ty # "dict" THEN [raised |-> "TypeError"]
    ELSE IF pid \in DOMAIN datastore["projects"].d
    THEN [raised |-> "none", ret |-> datastore["projects"].d[pid]]
    ELSE [raised |-> "none", ret |-> [ty |-> "KeyError", pid |-> pid]]

\* A store that keeps what is already under the key.
KeepFirstResult(store, query_result) ==
    IF query_result.label \in DOMAIN store THEN store
    ELSE Merge(store, (query_result.label :> query_result))

\* self._datastore[query_result.label] = query_result (line 328)
StoreQueryResult(store, query_result) ==
    Merge(store, (query_result.label :> query_result))

\* Jira.populate_from_jql(query, label)
populate_from_jql(query, label, answer) ==
    /\ IF query = PyNone
       THEN /\ storeCall' = [op |-> "populate_from_jql", query |-> query, label |-> label,
                             raised |-> "ValueError"]
            /\ UNCHANGED <<datastore, latest>>
       ELSE LET issues == WrapIssues(answer)
                query_result == JQLResultInit(query, label, OwnList(issues))
            IN /\ datastore' = StoreQueryResult(datastore, query_result)
               /\ latest' = Merge(latest, (label :> [query |-> query, issues |-> issues]))
               /\ storeCall' = [op |-> "populate_from_jql", query |-> query, label |-> label,
                                answer |-> answer, raised |-> "none", ret |-> query_result,
                                superseding |-> /\ label \in DOMAIN latest
                                                /\ latest[label].query # query
                                                /\ latest[label].issues # issues]
    /\ UNCHANGED <<defaultIssues, flowVars, issueVars>>

(***************************************************************************)
(* The three objects, each driven by its callers.                          *)
(***************************************************************************)
\* FlowLog()
FlowInit ==
    /\ timeline = <<>>
    /\ flowCall = [value |-> PyNone, raised |-> "nocall"]

LastDay == LastTick \div TicksPerDay

\* No JiraIssue built yet; the process runs today or tomorrow of the last
\* day the source can report, with either numpy.
IssueInit ==
    /\ issue = [raised |-> "nocall"]
    /\ counted = [called |-> FALSE]
    /\ env \in [today : {LastDay, LastDay + 1}, busdayFix : BOOLEAN]

FlowNext == \E value \in AppendValues : FlowAppend(value)

IssueNext == \E tz \in BOOLEAN : \E raw \in RawIssues(tz) : Construct(raw)

Next ==
    \/ \E projectids \in IdLists : \E answers \in [1..Len(projectids) -> Answers] :
           populate_projects(projectids, answers)
    \/ \E query \in Queries, label \in Labels, answer \in Answers :
           populate_from_jql(query, label, answer)

\* No JiraIssue is built.
IssueIdle ==
    /\ issue = [raised |-> "nocall"]
    /\ counted = [called |-> FALSE]
    /\ env = [today |-> LastDay, busdayFix |-> FALSE]

\* Callers of one FlowLog
InitFlowLog == FlowInit /\ IssueIdle /\ StoreInit

SpecFlowLog == InitFlowLog /\ [][FlowNext]_vars

\* The constructor of one JiraIssue
InitIssue == FlowInit /\ IssueInit /\ StoreInit

SpecIssue == InitIssue /\ [][IssueNext]_vars

\* The business-day count on its own, with either numpy
BusdayNext == \E begin, end \in Days : CountBusdays(begin, end)

InitBusday == FlowInit /\ IssueInit /\ StoreInit

SpecBusday == InitBusday /\ [][BusdayNext]_vars

\* Callers of one Jira adapter
Init == FlowInit /\ IssueIdle /\ StoreInit

Spec == Init /\ [][Next]_vars

(***************************************************************************)
(* Properties of FlowLog (SpecFlowLog)                                     *)
(***************************************************************************)
Ascending(s) ==
    \A i \in 1..(Len(s) - 1) :
        /\ Comparable(s[i].entered_at, s[i + 1].entered_at)
        /\ s[i].entered_at.t <= s[i + 1].entered_at.t

\* C1: after appends that all returned, in whatever order the entered_at
\* values came, the entries are in ascending entered_at order. An append
\* returns only when all keys of the list can be ordered, and a list whose keys
\* can all be ordered is ascending.
C1_AscendingAfterAppend ==
    /\ flowCall.raised = "none" => ~SortRaises(timeline)
    /\ ~SortRaises(timeline) => Ascending(timeline)

\* An entry was appended that is earlier than one already in the list, and the
\* list has its full length.
C1_Witness ==
    /\ flowCall.raised = "none"
    /\ Len(timeline) = MaxLen
    /\ timeline[1].entered_at.t < timeline[Len(timeline)].entered_at.t
    /\ flowCall.value.d.entered_at.t < timeline[Len(timeline)].entered_at.t

NonTimestampCall(call) ==
    /\ call.raised # "nocall"
    /\ call.value.ty = "dict"
    /\ "entered_at" \in DOMAIN call.value.d
    /\ call.value.d.entered_at.ty # "datetime"

\* C7: append of an entry whose entered_at is no timestamp (a string, a
\* number, None) raises TypeError and leaves the list as it was.
C7_NonTimestampRejected ==
    [][NonTimestampCall(flowCall') =>
          (flowCall'.raised = "TypeError" /\ timeline' = timeline)]_vars

\* Such an append was made on a list that holds entries.
C7_Witness ==
    /\ NonTimestampCall(flowCall)
    /\ flowCall.raised = "TypeError"
    /\ Len(timeline) >= 2

\* C8: an entry with a valid entered_at whose state is missing or "" is
\* rejected (the call raises) and not added, so every entry of the list has a
\* non-empty state.
C8_EmptyStateRejected ==
    /\ \A i \in 1..Len(timeline) : timeline[i].state # PyStr("")
    /\ (/\ flowCall.raised # "nocall"
        /\ flowCall.value.ty = "dict"
        /\ "entered_at" \in DOMAIN flowCall.value.d
        /\ flowCall.value.d.entered_at.ty = "datetime"
        /\ ("state" \notin DOMAIN flowCall.value.d \/ flowCall.value.d.state = PyStr("")))
       => flowCall.raised # "none"

(***************************************************************************)
(* Properties of JiraIssue (SpecIssue)                                     *)
(***************************************************************************)
\* C4: when the constructor returns and the flow log has more than one entry,
\* every entry but the last has a duration; so has the "Created" entry when a
\* status change follows it.
C4_AllButLastHaveDuration ==
    (issue.raised = "none" /\ Len(issue.flow_log) > 1) =>
        \A i \in 1..(Len(issue.flow_log) - 1) : "duration" \in DOMAIN issue.flow_log[i]

(***************************************************************************)
(* Properties of the Jira adapter (Spec)                                   *)
(***************************************************************************)
NotFound(pid) == [raised |-> "none", ret |-> [ty |-> "KeyError", pid |-> pid]]

\* What a caller sees of get_project(pid): the project's key, name and records.
ProjectView(pid) ==
    LET r == get_project(pid)
    IN IF r.raised = "none" /\ r.ret.ty = "JiraProject"
       THEN [key |-> r.ret.key, name |-> r.ret.name,
             records |-> IssuesOf(r.ret, defaultIssues)]
       ELSE r

\* The ids of call for which the source returned no ticket.
EmptyIds(call) == {call.ids[i] : i \in {j \in 1..Len(call.ids) : call.answers[j] = <<>>}}

\* C2: a project for which the source returns no ticket is skipped by
\* populate_projects: it is not in the returned mapping, and if the cache had
\* no entry for it, get_project still gives the not-found outcome.
C2_EmptyProjectSkipped ==
    [][storeCall'.op = "populate_projects" =>
          \A pid \in EmptyIds(storeCall') :
              /\ storeCall'.raised = "none" => pid \notin DOMAIN storeCall'.ret
              /\ get_project(pid) = NotFound(pid) => get_project(pid)' = NotFound(pid)]_vars

\* C3: populate_from_jql with query "" or None raises ValueError and changes
\* nothing in the cache.
C3_EmptyQueryRejected ==
    [][(storeCall'.op = "populate_from_jql"
        /\ storeCall'.query \in {PyNone, PyStr("")}) =>
          (/\ storeCall'.raised = "ValueError"
           /\ datastore' = datastore
           /\ defaultIssues' = defaultIssues)]_vars

\* C5: get_query_result(L) returns the result of the last populate_from_jql
\* that returned for label L: its query and its tickets, nothing of earlier ones.
C5_LatestQueryResult ==
    \A l \in DOMAIN latest :
        LET r == get_query_result(l)
        IN /\ r.raised = "none"
           /\ r.ret.ty = "JQLResult"
           /\ r.ret.label = l
           /\ r.ret.query = latest[l].query
           /\ IssuesOf(r.ret, defaultIssues) = latest[l].issues

\* A populate_from_jql has replaced, under its label, the result of another
\* query with other tickets, and get_query_result returns what it returned.
C5_Witness ==
    /\ storeCall.op = "populate_from_jql"
    /\ storeCall.raised = "none"
    /\ storeCall.superseding
    /\ storeCall.query = PyStr("q2")
    /\ get_query_result(storeCall.label) = [raised |-> "none", ret |-> storeCall.ret]

Range(s) == {s[i] : i \in 1..Len(s)}

\* C6: populate_projects(ids) leaves the cached entry of every project not in
\* ids as it was: same key, name and records.
C6_OtherProjectsUntouched ==
    [][storeCall'.op = "populate_projects" =>
          \A pid \in Pids \ Range(storeCall'.ids) :
              ProjectView(pid)' = ProjectView(pid)]_vars

\* C9: get_query_result(label) raises KeyError for every label no
\* populate_from_jql has stored a result under, and what it returns is a
\* JQLResult.
C9_UnpopulatedLabelNotFound ==
    \A l \in Labels \cup {"issues", "A"} :
        LET r == get_query_result(l)
        IN /\ l \notin DOMAIN latest => r.raised = "KeyError"
           /\ r.raised = "none" => r.ret.ty = "JQLResult"

ProjectCached(pid) ==
    /\ datastore["projects"].ty = "dict"
    /\ pid \in DOMAIN datastore["projects"].d

\* C10: after any calls of populate_projects and populate_from_jql,
\* get_project(id) gives the not-found outcome naming id when id is not in the
\* project cache, the project when it is, and raises nothing.
C10_GetProjectTyped ==
    \A pid \in Pids :
        LET r == get_project(pid)
        IN /\ r.raised = "none"
           /\ IF ProjectCached(pid) THEN r.ret.ty = "JiraProject" ELSE r = NotFound(pid)

\* No item of the change history has field "status" (or there is no history).
HasNoStatusItem(raw) ==
    \A h \in 1..Len(raw.changelog.histories) :
        \A k \in 1..Len(raw.changelog.histories[h].items) :
            raw.changelog.histories[h].items[k].field # "status"

\* C13: a ticket with no change history, or with no status item in it, is
\* constructed without error and its flow log is the one entry "Created" at
\* created, with no duration.
C13_NoStatusSingleCreated ==
    (issue.raised # "nocall" /\ HasNoStatusItem(issue.rawissue)) =>
        /\ issue.raised = "none"
        /\ issue.flow_log = <<[entered_at |-> parse(issue.rawissue.created),
                               state |-> PyStr("Created")]>>

\* An issue was built from a history of two entries, none of them a status change.
C13_Witness ==
    /\ issue.raised = "none"
    /\ issue.rawissue.changelog.present
    /\ Len(issue.rawissue.changelog.histories) = 2
    /\ HasNoStatusItem(issue.rawissue)
    /\ Len(issue.flow_log) = 1

\* The entry of the flow log that is the dict named oid.
EntryOf(oid) ==
    issue.flow_log[CHOOSE k \in 1..Len(issue.flow_log) : issue.flow_oids[k] = oid]

\* C16: the status items are processed in history order: the dict of each but
\* the last gets the business days from its date to the date of the next status
\* item in history order, the last gets the business days from its date to
\* today; other items add no entry and change no duration.
C16_DurationsInHistoryOrder ==
    (issue.raised = "none" /\ issue.rawissue.changelog.present) =>
        LET ev == StatusEvents(issue.rawissue.changelog.histories)
            n == Len(ev)
            until(i) == IF i < n THEN date(ev[i + 1].entered_at) ELSE env.today
        IN /\ Len(issue.flow_log) = n + 1
           /\ {issue.flow_oids[k] : k \in 1..Len(issue.flow_oids)} = 0..n
           /\ EntryOf(0) = [entered_at |-> issue.created, state |-> PyStr("Created")]
           /\ \A i \in 1..n :
                  EntryOf(i) = [entered_at |-> ev[i].entered_at,
                                state |-> PyStr(ev[i].state),
                                duration |-> busday_count(date(ev[i].entered_at), until(i),
                                                          env.busdayFix)]

\* An issue was built from two status items and an item of another field, the
\* later status item first in the history.
C16_Witness ==
    /\ issue.raised = "none"
    /\ issue.rawissue.changelog.present
    /\ ~HasNoStatusItem(issue.rawissue)
    /\ \E h \in 1..Len(issue.rawissue.changelog.histories) :
           Len(issue.rawissue.changelog.histories[h].items) = 2
    /\ Len(issue.flow_log) = 3
    /\ issue.flow_oids = <<0, 2, 1>>

\* Every timestamp of the history is at or after created.
HistoryAfterCreation(raw) ==
    \A h \in 1..Len(raw.changelog.histories) :
        raw.changelog.histories[h].created.t >= raw.created.t

\* C19: in the flow log of a constructed issue, in whatever order the source
\* lists the status changes, an entry that has a duration and a successor has
\* the business days from its date to its successor's date, which is not
\* negative.
C19_DurationToSuccessor ==
    (issue.raised = "none" /\ HistoryAfterCreation(issue.rawissue)) =>
        \A k \in 1..(Len(issue.flow_log) - 1) :
            "duration" \in DOMAIN issue.flow_log[k] =>
                /\ issue.flow_log[k].duration =
                       busday_count(date(issue.flow_log[k].entered_at),
                                    date(issue.flow_log[k + 1].entered_at), env.busdayFix)
                /\ issue.flow_log[k].duration >= 0

\* What a reader of the cache sees: every key of the store and, for a result
\* set, its records.
RecordsOf(result) ==
    IF result.ty = "dict"
    THEN [pid \in DOMAIN result.d |-> IssuesOf(result.d[pid], defaultIssues)]
    ELSE IssuesOf(result, defaultIssues)
CacheRecords == [k \in DOMAIN datastore |-> RecordsOf(datastore[k])]

\* The call that ends this step repeats the call before it.
RepeatedCall ==
    /\ storeCall.op # "nocall"
    /\ storeCall.raised = "none"
    /\ storeCall'.op = storeCall.op
    /\ storeCall'.raised = "none"
    /\ \/ /\ storeCall.op = "populate_projects"
          /\ storeCall'.ids = storeCall.ids
          /\ storeCall'.answers = storeCall.answers
       \/ /\ storeCall.op = "populate_from_jql"
          /\ storeCall'.query = storeCall.query
          /\ storeCall'.label = storeCall.label
          /\ storeCall'.answer = storeCall.answer

\* C12: repeating populate_projects or populate_from_jql with the same
\* arguments and the same answers of the source leaves the keys of the cache and
\* the records of every stored result set as they were after the first call.
C12_RepeatLeavesCache ==
    [][RepeatedCall => CacheRecords' = CacheRecords]_vars

\* C17: the records of every result set populate_projects returns are the
\* tickets the source returned for that project in this call, in the source's
\* order.
C17_RecordsAreTheAnswer ==
    (storeCall.op = "populate_projects" /\ storeCall.raised = "none") =>
        \A i \in 1..Len(storeCall.ids) :
            storeCall.ids[i] \in DOMAIN storeCall.ret =>
                IssuesOf(storeCall.ret[storeCall.ids[i]], defaultIssues)
                    = WrapIssues(storeCall.answers[i])

\* C18: populate_from_jql leaves the project cache unchanged, whatever the
\* query and the label, and populate_projects succeeds after it.
C18_LabelCacheIndependent ==
    [][/\ storeCall'.op = "populate_from_jql" =>
              datastore'["projects"] = datastore["projects"]
       /\ storeCall'.op = "populate_projects" => storeCall'.raised = "none"]_vars

\* C20: a call of append that raises leaves the timeline with the same entries
\* in the same order as before the call.
C20_AppendAllOrNothing ==
    [][flowCall'.raised \notin {"none", "nocall"} => timeline' = timeline]_vars

\* The days from Monday to Friday in a range of days.
Weekdays(from, to) == Cardinality({d \in from..to : d % 7 \notin {5, 6}})

C11_CycleTime ==
    issue.raised = "none" =>
        cycleTime(issue, env.busdayFix) =
            IF issue.resolutiondate = PyNone
            THEN [raised |-> "none", ret |-> 0]
            ELSE [raised |-> "none",
                  ret |-> busday_count(date(issue.created),
                                       date(parse(issue.resolutiondate)), env.busdayFix)]

\* C15: after construction updated_at holds the ticket's last-updated
\* timestamp, parsed.
C15_UpdatedAtKept ==
    issue.raised = "none" => issue.updated_at = parse(issue.rawissue.updated)

====
